---- MODULE Spec2Model ----
(***************************************************************************)
(* State-machine model of OVSDBManager                                     *)
(* (networking_l2gw/services/l2gateway/agent/ovsdb/manager.py).            *)
(*                                                                         *)
(* The manager runs on eventlet green threads: a handler runs without      *)
(* interruption until it blocks on I/O.  The blocking points are the       *)
(* construction of an OVSDBMonitor (line 108), the construction of an      *)
(* OVSDBWriter (line 185) and the write operation inside the scoped        *)
(* connection (lines 203..246).  Every action below is one such            *)
(* uninterrupted stretch of a handler.                                     *)
(***************************************************************************)
EXTENDS Naturals, Sequences, FiniteSets, TLC

VARIABLES
    phase,            \* "new" before __init__, "ready" after it, "exited" after SystemExit
    conf,             \* conf.ovsdb: ovsdb_hosts, max_connection_retries, periodic_interval
    net,              \* environment: what opening a monitoring connection to a gateway yields
    gateways,         \* self.gateways: identifier -> state of gateway.ovsdb_fd
    looping_task,     \* self.looping_task: created, _running
    l2gw_agent_type,  \* self.l2gw_agent_type
    agent_state,      \* self.agent_state['configurations'][L2GW_AGENT_TYPE]
    tick,             \* the activation of _connect_to_ovsdb_server on the looping task
    orphans,          \* live event-reception loops whose handle the registry no longer holds
    last_call,        \* what the last set_monitor_agent / handle_report_state_failure did
    scenario,         \* progress of a Monitor -> Transact -> Monitor -> tick sequence
    writer            \* the write request in progress, or the last one finished

vars == <<phase, conf, net, gateways, looping_task, l2gw_agent_type, agent_state,
          tick, orphans, last_call, scenario, writer>>

-----------------------------------------------------------------------------
(* Bounds of the model.                                                    *)

MaxRetries == 2
MaxInterval == 2
MaxOrphans == 1

(* n_const.MONITOR, n_const.TRANSACT and the initial agent type.           *)
MONITOR == "monitor"
TRANSACT == "transact"
UNSET == ""

(* The host of this agent (conf.host) and the hostnames a plugin may send. *)
ThisHost == "self"
Hostnames == {"self", "other"}

(* Host entries of ovsdb_hosts, each already cut at ':' into its fields.   *)
HostA == <<"A", "10.0.0.1", "6632">>
HostB == <<"B", "10.0.0.2", "6632">>
HostEmptyId == <<"", "10.0.0.3", "6632">>
HostMalformed == <<"M">>

(* The configured host lists; <<>> is ovsdb_hosts == ''.                   *)
HostLists ==
    { <<>>,
      <<HostA>>,
      <<HostA, HostB>>,
      <<HostA, HostMalformed>>,
      <<HostEmptyId, HostA, HostB>> }

(* The host lists of the specification that also runs write requests.      *)
WriteHostLists ==
    { <<>>,
      <<HostEmptyId, HostA, HostMalformed>> }

(* Identifiers a request may carry.                                        *)
Identifiers == {"", "A", "B"}

NetStates == {"down", "up", "flaky"}

-----------------------------------------------------------------------------
(* Values.                                                                 *)

EmptyMap == [x \in {} |-> "none"]

Put(m, k, v) == [x \in (DOMAIN m) \cup {k} |-> IF x = k THEN v ELSE m[x]]

(* gateway.ovsdb_fd: fd is FALSE for None; connected is ovsdb_fd.connected; *)
(* loop says that the handle's event-reception green thread is live.        *)
NoHandle == [fd |-> FALSE, connected |-> FALSE, loop |-> FALSE]

(* ovsdb_fd and ovsdb_fd.connected *)
IsConnected(h) == h.fd /\ h.connected

(* OVSDBMonitor(...): raises when the gateway is "down"; otherwise a handle *)
(* that reports connected ("up") or does not ("flaky").                     *)
OVSDBMonitor(how) == [fd |-> TRUE, connected |-> (how = "up"), loop |-> FALSE]

(* ovsdb_fd.disconnect() on a monitoring handle: the handle stops reporting *)
(* connected and its event-reception loop ends; it never raises.            *)
MonitorDisconnect(h) == [h EXCEPT !.connected = FALSE, !.loop = FALSE]

Orders(S) ==
    { s \in [1..Cardinality(S) -> S] :
        \A i, j \in 1..Cardinality(S) : i # j => s[i] # s[j] }

IdleTick ==
    [pc |-> "idle", keys |-> <<>>, ovsdb_states |-> EmptyMap, outcome |-> EmptyMap,
     skipped |-> {}, monitor |-> FALSE, notified |-> <<>>]

NoCall ==
    [op |-> "none", started |-> FALSE, stopped |-> FALSE, disconnected |-> {},
     again |-> FALSE]

IdleWriter ==
    [pc |-> "idle", req |-> "none", id |-> "", fd |-> "none",
     attempts |-> 0, invoked |-> "none", disconnects |-> 0,
     op_out |-> "none", rel_out |-> "none", result |-> "none"]

-----------------------------------------------------------------------------
(* __init__ and the configuration.                                         *)

(* _process_ovsdb_host: an entry with fewer than three fields raises inside *)
(* the try block and is skipped; otherwise its first field is the key.      *)
RECURSIVE process_ovsdb_hosts(_)
process_ovsdb_hosts(hosts) ==
    IF hosts = <<>> THEN {}
    ELSE LET host == Head(hosts)
             rest == process_ovsdb_hosts(Tail(hosts))
         IN IF Len(host) >= 3 THEN rest \cup {host[1]} ELSE rest

(* _extract_ovsdb_config raises SystemExit: only inside "if ovsdb_hosts != ''". *)
extract_ovsdb_config_exits(c) ==
    /\ c.ovsdb_hosts # <<>>
    /\ c.max_connection_retries >= c.periodic_interval

InitWith(host_lists) ==
    /\ phase = "new"
    /\ conf \in [ovsdb_hosts : host_lists,
                 max_connection_retries : 1..MaxRetries,
                 periodic_interval : 1..MaxInterval]
    /\ net \in [process_ovsdb_hosts(conf.ovsdb_hosts) -> NetStates]
    /\ gateways = EmptyMap
    /\ looping_task = [created |-> FALSE, running |-> FALSE]
    /\ l2gw_agent_type = UNSET
    /\ agent_state = UNSET
    /\ tick = IdleTick
    /\ orphans = 0
    /\ last_call = NoCall
    /\ scenario = "none"
    /\ writer = IdleWriter

InitMonitor == InitWith(HostLists)

Init == InitWith(WriteHostLists)

(* OVSDBManager.__init__ *)
Construct ==
    /\ phase = "new"
    /\ gateways' = [k \in process_ovsdb_hosts(conf.ovsdb_hosts) |-> NoHandle]
    /\ IF extract_ovsdb_config_exits(conf)
       THEN /\ phase' = "exited"
            /\ UNCHANGED looping_task
       ELSE /\ phase' = "ready"
            /\ looping_task' = [created |-> TRUE, running |-> FALSE]
    /\ UNCHANGED <<conf, net, l2gw_agent_type, agent_state, tick, orphans,
                   last_call, scenario, writer>>

-----------------------------------------------------------------------------
(* The agent mode.                                                         *)

(* _stop_looping_task without the call of stop(). *)
stop_looping_task_never(t) == t

(* _stop_looping_task *)
stop_looping_task(t) == IF t.running THEN [t EXCEPT !.running = FALSE] ELSE t

(* _start_looping_task without the call of start(). *)
start_looping_task_never(t) == t

(* _start_looping_task *)
start_looping_task(t) == IF ~t.running THEN [t EXCEPT !.running = TRUE] ELSE t

(* _disconnect_all_ovsdb_servers that disconnects nothing. *)
disconnect_all_ovsdb_servers_none(gws) == gws

(* _disconnect_all_ovsdb_servers: the registry after it. *)
disconnect_all_ovsdb_servers(gws) ==
    [k \in DOMAIN gws |-> IF IsConnected(gws[k]) THEN MonitorDisconnect(gws[k]) ELSE gws[k]]

(* _disconnect_all_ovsdb_servers without the test of connected: disconnect() *)
(* is called on every handle present.                                        *)
disconnect_calls_every_handle(gws) == {k \in DOMAIN gws : gws[k].fd}

(* The handles _disconnect_all_ovsdb_servers calls disconnect() on. *)
disconnect_calls(gws) == {k \in DOMAIN gws : IsConnected(gws[k])}

(* BaseAgentManager.set_monitor_agent: the agent type a hostname selects. *)
base_set_monitor_agent(hostname) == IF hostname = ThisHost THEN MONITOR ELSE TRANSACT

(* The progress of the sequence: set_monitor_agent takes the agent from    *)
(* Monitor to Transact with A and B connected ("transact"), a later         *)
(* set_monitor_agent takes it back to Monitor with no tick in progress      *)
(* ("monitor"), and the restarted task runs its first tick ("tick").        *)
ScenarioGateways == {"A", "B"}

ScenarioAfterSetMode(new_type) ==
    IF new_type = MONITOR
    THEN IF scenario = "transact" /\ tick.pc # "opening" THEN "monitor"
         ELSE IF scenario \in {"monitor", "tick"} THEN scenario ELSE "none"
    ELSE IF /\ l2gw_agent_type = MONITOR
            /\ ScenarioGateways \subseteq DOMAIN gateways
            /\ \A k \in ScenarioGateways : IsConnected(gateways[k])
         THEN "transact"
         ELSE IF scenario = "transact" /\ l2gw_agent_type = TRANSACT THEN "transact"
              ELSE "none"

(* OVSDBManager.set_monitor_agent *)
set_monitor_agent(hostname) ==
    /\ phase = "ready"
    /\ LET new_type == base_set_monitor_agent(hostname) IN
         /\ l2gw_agent_type' = new_type
         /\ agent_state' = new_type
         /\ scenario' = ScenarioAfterSetMode(new_type)
         /\ IF new_type = MONITOR
            THEN /\ looping_task' = start_looping_task(looping_task)
                 /\ gateways' = gateways
                 /\ last_call' = [op |-> "set_monitor_agent",
                                  started |-> ~looping_task.running,
                                  stopped |-> FALSE,
                                  disconnected |-> {},
                                  again |-> l2gw_agent_type = new_type]
            ELSE /\ looping_task' = stop_looping_task(looping_task)
                 /\ gateways' = disconnect_all_ovsdb_servers(gateways)
                 /\ last_call' = [op |-> "set_monitor_agent",
                                  started |-> FALSE,
                                  stopped |-> looping_task.running,
                                  disconnected |-> disconnect_calls(gateways),
                                  again |-> l2gw_agent_type = new_type]
    /\ UNCHANGED <<phase, conf, net, tick, orphans, writer>>

(* OVSDBManager.handle_report_state_failure *)
handle_report_state_failure ==
    /\ phase = "ready"
    /\ IF l2gw_agent_type = MONITOR
       THEN /\ l2gw_agent_type' = UNSET
            /\ agent_state' = UNSET
            /\ looping_task' = stop_looping_task(looping_task)
            /\ gateways' = disconnect_all_ovsdb_servers(gateways)
            /\ last_call' = [op |-> "handle_report_state_failure",
                             started |-> FALSE,
                             stopped |-> looping_task.running,
                             disconnected |-> disconnect_calls(gateways),
                             again |-> FALSE]
       ELSE /\ UNCHANGED <<l2gw_agent_type, agent_state, looping_task, gateways>>
            /\ last_call' = [op |-> "handle_report_state_failure",
                             started |-> FALSE,
                             stopped |-> FALSE,
                             disconnected |-> {},
                             again |-> FALSE]
    /\ scenario' = "none"
    /\ UNCHANGED <<phase, conf, net, tick, orphans, writer>>

-----------------------------------------------------------------------------
(* The periodic task: _connect_to_ovsdb_server.                            *)

(* Line 104 that opens a connection for every gateway, whatever its handle  *)
(* reports.                                                                 *)
ScanGatewaysReopen(gws, keys, states, skipped) ==
    [keys |-> keys, ovsdb_states |-> states, skipped |-> skipped]

(* The for loop of lines 101..127 from the gateway at the head of keys, up  *)
(* to the first gateway whose handle is absent or not connected (the loop   *)
(* then blocks in OVSDBMonitor(...), line 108) or to the end of the keys.   *)
(* A gateway whose handle reports connected is marked 'connected' (lines    *)
(* 126..127) without a new connection.                                      *)
RECURSIVE ScanGateways(_, _, _, _)
ScanGateways(gws, keys, states, skipped) ==
    IF keys = <<>>
    THEN [keys |-> <<>>, ovsdb_states |-> states, skipped |-> skipped]
    ELSE LET key == Head(keys)
             ovsdb_fd == gws[key]
         IN IF ~IsConnected(ovsdb_fd)
            THEN [keys |-> keys, ovsdb_states |-> states, skipped |-> skipped]
            ELSE ScanGateways(gws, Tail(keys), Put(states, key, "connected"),
                              skipped \cup {key})

(* Lines 128..130: the states are pushed with notify_ovsdb_states when the  *)
(* loop has ended; otherwise the tick waits for the connection of Head(keys). *)
TickAfterScan(t, r) ==
    IF r.keys = <<>>
    THEN [t EXCEPT !.pc = "done", !.keys = <<>>, !.ovsdb_states = r.ovsdb_states,
                   !.skipped = r.skipped,
                   !.notified = Append(t.notified, r.ovsdb_states)]
    ELSE [t EXCEPT !.pc = "opening", !.keys = r.keys, !.ovsdb_states = r.ovsdb_states,
                   !.skipped = r.skipped]

(* Line 100 that tests the registry alone. *)
TickRunsInAnyMode(gws, agent_type) == DOMAIN gws # {}

(* Line 100: if self.gateways and self.l2gw_agent_type == n_const.MONITOR *)
TickRuns(gws, agent_type) == DOMAIN gws # {} /\ agent_type = MONITOR

(* _connect_to_ovsdb_server from its entry to its first blocking point or  *)
(* to its return.                                                           *)
TickBegin ==
    IF TickRuns(gateways, l2gw_agent_type)
    THEN \E order \in Orders(DOMAIN gateways) :
           tick' = TickAfterScan([IdleTick EXCEPT !.monitor = TRUE],
                                 ScanGateways(gateways, order, EmptyMap, {}))
    ELSE tick' = [IdleTick EXCEPT !.pc = "done", !.notified = <<EmptyMap>>]

(* The looping task calls _connect_to_ovsdb_server while _running is set. *)
TickStart ==
    /\ phase = "ready"
    /\ looping_task.running
    /\ tick.pc \in {"idle", "done"}
    /\ TickBegin
    /\ scenario' = IF scenario = "monitor" THEN "tick"
                   ELSE IF scenario = "tick" THEN "none" ELSE scenario
    /\ UNCHANGED <<phase, conf, net, gateways, looping_task, l2gw_agent_type,
                   agent_state, orphans, last_call, writer>>

(* A call of _connect_to_ovsdb_server that is not made by the looping task  *)
(* (the task is stopped).                                                   *)
connect_to_ovsdb_server_call ==
    /\ phase = "ready"
    /\ ~looping_task.running
    /\ tick.pc \in {"idle", "done"}
    /\ TickBegin
    /\ UNCHANGED <<phase, conf, net, gateways, looping_task, l2gw_agent_type,
                   agent_state, orphans, last_call, scenario, writer>>

(* Lines 112..119: the connection could not be opened. *)
OpenFailed(t, key) ==
    [t EXCEPT !.ovsdb_states = Put(t.ovsdb_states, key, "disconnected"),
              !.outcome = Put(t.outcome, key, "fail")]

(* break in the place of continue: the loop ends at the unreachable gateway. *)
AfterOpenFailureBreak(keys) == <<>>

(* Line 119, continue: the loop goes on with the gateways after the one    *)
(* that could not be reached.                                               *)
AfterOpenFailure(keys) == Tail(keys)

(* Lines 126..127 for a handle opened in this tick. *)
OpenSucceeded(t, key, ovsdb_fd) ==
    [t EXCEPT !.ovsdb_states = IF IsConnected(ovsdb_fd)
                               THEN Put(t.ovsdb_states, key, "connected")
                               ELSE t.ovsdb_states,
              !.outcome = Put(t.outcome, key, IF ovsdb_fd.connected THEN "ok" ELSE "flaky")]

(* The spawn failure handled like an unreachable gateway: the gateway is    *)
(* marked 'disconnected'.                                                   *)
SpawnFailedAsDisconnected(t, key) ==
    [t EXCEPT !.pc = "aborted",
              !.ovsdb_states = Put(t.ovsdb_states, key, "disconnected"),
              !.outcome = Put(t.outcome, key, "spawn_failed")]

(* Lines 121..125: spawn_n raises and SystemExit leaves the method; the     *)
(* rest of the loop and lines 126..130 are not run.                         *)
SpawnFailed(t, key) ==
    [t EXCEPT !.pc = "aborted", !.outcome = Put(t.outcome, key, "spawn_failed")]

(* Line 120 left out: the registry keeps the handle it had.                 *)
StoreHandleNever(gws, key, ovsdb_fd) == gws

(* Line 120: gateway.ovsdb_fd = ovsdb_fd *)
StoreHandle(gws, key, ovsdb_fd) == [gws EXCEPT ![key] = ovsdb_fd]

(* OVSDBMonitor(...) of line 108 returns or raises, and the tick runs on to *)
(* its next blocking point.                                                 *)
TickOpenDone ==
    /\ phase = "ready"
    /\ tick.pc = "opening"
    /\ LET key == Head(tick.keys)
           old == gateways[key]
       IN IF net[key] = "down"
          THEN /\ LET t == OpenFailed(tick, key)
                  IN tick' = TickAfterScan(t,
                                 ScanGateways(gateways, AfterOpenFailure(tick.keys),
                                              t.ovsdb_states, t.skipped))
               /\ UNCHANGED <<phase, gateways, orphans>>
          ELSE /\ old.loop => orphans < MaxOrphans
               /\ orphans' = IF old.loop THEN orphans + 1 ELSE orphans
               /\ \E spawn_ok \in BOOLEAN :
                    LET ovsdb_fd == [OVSDBMonitor(net[key]) EXCEPT !.loop = spawn_ok]
                        gws == StoreHandle(gateways, key, ovsdb_fd)
                        t == OpenSucceeded(tick, key, ovsdb_fd)
                    IN /\ gateways' = gws
                       /\ IF spawn_ok
                          THEN /\ tick' = TickAfterScan(t,
                                              ScanGateways(gws, Tail(tick.keys),
                                                           t.ovsdb_states, t.skipped))
                               /\ phase' = "ready"
                          ELSE \* line 125: raise SystemExit
                               /\ tick' = SpawnFailed(tick, key)
                               /\ phase' = "exited"
    /\ UNCHANGED <<conf, net, looping_task, l2gw_agent_type, agent_state,
                   last_call, scenario, writer>>

-----------------------------------------------------------------------------
(* The environment of the monitoring connections.                          *)

(* The peer closes a monitoring connection: the handle stops reporting      *)
(* connected and its event-reception loop ends.                             *)
ConnectionLost(key) ==
    /\ phase = "ready"
    /\ key \in DOMAIN gateways
    /\ IsConnected(gateways[key])
    /\ gateways' = [gateways EXCEPT ![key] = MonitorDisconnect(@)]
    /\ UNCHANGED <<phase, conf, net, looping_task, l2gw_agent_type, agent_state,
                   tick, orphans, last_call, scenario, writer>>

(* The event-reception loop of a handle that does not report connected ends *)
(* by itself.                                                               *)
LoopExit(key) ==
    /\ phase = "ready"
    /\ key \in DOMAIN gateways
    /\ gateways[key].loop /\ ~gateways[key].connected
    /\ gateways' = [gateways EXCEPT ![key].loop = FALSE]
    /\ UNCHANGED <<phase, conf, net, looping_task, l2gw_agent_type, agent_state,
                   tick, orphans, last_call, scenario, writer>>

OrphanExit ==
    /\ phase = "ready"
    /\ orphans > 0
    /\ orphans' = orphans - 1
    /\ UNCHANGED <<phase, conf, net, gateways, looping_task, l2gw_agent_type,
                   agent_state, tick, last_call, scenario, writer>>

-----------------------------------------------------------------------------
NextMonitor ==
    \/ Construct
    \/ \E hostname \in Hostnames : set_monitor_agent(hostname)
    \/ handle_report_state_failure
    \/ TickStart
    \/ connect_to_ovsdb_server_call
    \/ TickOpenDone
    \/ \E key \in Identifiers : ConnectionLost(key)
    \/ \E key \in Identifiers : LoopExit(key)
    \/ OrphanExit

SpecMonitor == InitMonitor /\ [][NextMonitor]_vars

(* The monitoring side with a periodic task that keeps ticking: the looping *)
(* call runs _connect_to_ovsdb_server again after every return (lines       *)
(* 175..178), a pending OVSDBMonitor(...) returns or raises, and the event  *)
(* loop of a replaced handle ends.                                          *)
LiveHostLists == { <<HostA, HostB>> }

InitLive == InitWith(LiveHostLists)

SpecLive ==
    /\ InitLive
    /\ [][NextMonitor]_vars
    /\ WF_vars(TickStart)
    /\ WF_vars(TickOpenDone)
    /\ WF_vars(OrphanExit)

-----------------------------------------------------------------------------
(* Write requests and the scoped connection.                               *)

WriteRequests ==
    {"delete_network", "add_vif_to_gateway", "delete_vif_from_gateway",
     "update_vif_to_gateway", "update_connection_to_gateway"}

(* The OVSDBWriter method each handler calls inside the scoped connection;  *)
(* "fn" is the body of a direct use of _open_connection.                    *)
WriterMethod(req) ==
    CASE req = "delete_network" -> "delete_logical_switch"
      [] req = "add_vif_to_gateway" -> "insert_ucast_macs_remote"
      [] req = "delete_vif_from_gateway" -> "delete_ucast_macs_remote"
      [] req = "update_vif_to_gateway" -> "update_ucast_macs_remote"
      [] req = "update_connection_to_gateway" -> "update_connection_to_gateway"
      [] OTHER -> "fn"

(* _is_valid_request without the test of an empty identifier. *)
is_valid_request_registered(gws, ovsdb_identifier) == ovsdb_identifier \in DOMAIN gws

(* _is_valid_request *)
is_valid_request(gws, ovsdb_identifier) ==
    ovsdb_identifier # "" /\ ovsdb_identifier \in DOMAIN gws

(* _open_connection up to OVSDBWriter(self.conf.ovsdb, gateway), line 185.  *)
(* gateways.get() of an unregistered identifier is None, and the writer's   *)
(* constructor raises on it at once; otherwise the request blocks in the    *)
(* constructor, which connects to the gateway.                              *)
open_connection(gws, req, ovsdb_identifier) ==
    IF ovsdb_identifier \notin DOMAIN gws
    THEN [IdleWriter EXCEPT !.req = req, !.id = ovsdb_identifier, !.attempts = 1,
                            !.result = "AttributeError"]
    ELSE [IdleWriter EXCEPT !.pc = "opening", !.req = req, !.id = ovsdb_identifier,
                            !.attempts = 1, !.result = "pending"]

(* _open_connection releasing the connection only after a successful body. *)
open_connection_release_on_success(w, rel) ==
    IF w.fd = "open" /\ w.op_out = "ok"
    THEN [w EXCEPT !.fd = "closed", !.disconnects = @ + 1, !.rel_out = rel]
    ELSE w

(* The finally clause of _open_connection, lines 188..190. *)
open_connection_finally(w, rel) ==
    IF w.fd = "open"
    THEN [w EXCEPT !.fd = "closed", !.disconnects = @ + 1, !.rel_out = rel]
    ELSE w

(* _open_connection working on the handle stored in the registry: the       *)
(* release disconnects the gateway's monitoring connection.                 *)
open_connection_shared_handle(gws, w) ==
    IF w.fd = "closed" /\ w.id \in DOMAIN gws
    THEN [gws EXCEPT ![w.id] = MonitorDisconnect(@)]
    ELSE gws

(* The registry as _open_connection leaves it, lines 183..190: ovsdb_fd is  *)
(* a local name bound to the new OVSDBWriter, gateway.ovsdb_fd is neither   *)
(* read nor assigned, and disconnect() is called on the writer.             *)
open_connection_registry(gws, w) == gws

(* What the caller of the with statement sees: an exception raised in the   *)
(* finally clause replaces the one that was propagating.                    *)
Propagated(w) ==
    IF w.rel_out = "fail" THEN "ReleaseFailure"
    ELSE IF w.fd = "none" THEN "TransportFailure"
    ELSE w.op_out

(* The body shared by the five handlers, lines 201..203 and alike. *)
WriteRequest(req, ovsdb_identifier) ==
    /\ phase = "ready"
    /\ writer.pc = "idle"
    /\ writer' = IF is_valid_request(gateways, ovsdb_identifier)
                 THEN open_connection(gateways, req, ovsdb_identifier)
                 ELSE [IdleWriter EXCEPT !.req = req, !.id = ovsdb_identifier,
                                         !.result = "dropped"]
    /\ UNCHANGED <<phase, conf, net, gateways, looping_task, l2gw_agent_type,
                   agent_state, tick, orphans, last_call, scenario>>

delete_network(ovsdb_identifier) == WriteRequest("delete_network", ovsdb_identifier)

add_vif_to_gateway(ovsdb_identifier) == WriteRequest("add_vif_to_gateway", ovsdb_identifier)

delete_vif_from_gateway(ovsdb_identifier) ==
    WriteRequest("delete_vif_from_gateway", ovsdb_identifier)

update_vif_to_gateway(ovsdb_identifier) ==
    WriteRequest("update_vif_to_gateway", ovsdb_identifier)

update_connection_to_gateway(ovsdb_identifier) ==
    WriteRequest("update_connection_to_gateway", ovsdb_identifier)

(* A direct use of the context manager _open_connection. *)
open_connection_call(ovsdb_identifier) ==
    /\ phase = "ready"
    /\ writer.pc = "idle"
    /\ writer' = open_connection(gateways, "_open_connection", ovsdb_identifier)
    /\ UNCHANGED <<phase, conf, net, gateways, looping_task, l2gw_agent_type,
                   agent_state, tick, orphans, last_call, scenario>>

(* OVSDBWriter(...) returns (the with body then calls the writer's method   *)
(* and blocks in it) or raises (ovsdb_fd stays None).                       *)
WriterOpened ==
    /\ phase = "ready"
    /\ writer.pc = "opening"
    /\ \E opened \in BOOLEAN :
         writer' = IF opened
                   THEN [writer EXCEPT !.pc = "operating", !.fd = "open",
                                       !.invoked = WriterMethod(writer.req)]
                   ELSE LET w == open_connection_finally(writer, "ok")
                        IN [w EXCEPT !.pc = "idle", !.result = Propagated(w)]
    /\ gateways' = open_connection_registry(gateways, writer')
    /\ UNCHANGED <<phase, conf, net, looping_task, l2gw_agent_type,
                   agent_state, tick, orphans, last_call, scenario>>

(* The writer's method returns or raises, and the with statement is left.   *)
WriterOpDone ==
    /\ phase = "ready"
    /\ writer.pc = "operating"
    /\ \E out \in {"ok", "OperationFailure", "TransportFailure"}, rel \in {"ok", "fail"} :
         LET w == open_connection_finally([writer EXCEPT !.op_out = out], rel)
         IN writer' = [w EXCEPT !.pc = "idle", !.result = Propagated(w)]
    /\ gateways' = open_connection_registry(gateways, writer')
    /\ UNCHANGED <<phase, conf, net, looping_task, l2gw_agent_type,
                   agent_state, tick, orphans, last_call, scenario>>

NextWrite ==
    \/ \E id \in Identifiers : delete_network(id)
    \/ \E id \in Identifiers : add_vif_to_gateway(id)
    \/ \E id \in Identifiers : delete_vif_from_gateway(id)
    \/ \E id \in Identifiers : update_vif_to_gateway(id)
    \/ \E id \in Identifiers : update_connection_to_gateway(id)
    \/ \E id \in Identifiers : open_connection_call(id)
    \/ WriterOpened
    \/ WriterOpDone

Next == NextMonitor \/ NextWrite

Spec == Init /\ [][Next]_vars

-----------------------------------------------------------------------------
(* Properties.                                                             *)

(* C1  Mode exclusivity: after every call of set_monitor_agent and          *)
(* handle_report_state_failure, from the initial state on, the periodic     *)
(* task is running if and only if the agent type is Monitor.                *)
ModeExclusivity == looping_task.running <=> (l2gw_agent_type = MONITOR)

(* A heartbeat failure has taken the agent out of Monitor and stopped the task. *)
ModeExclusivityWitness ==
    /\ last_call.op = "handle_report_state_failure"
    /\ last_call.stopped
    /\ l2gw_agent_type = UNSET

(* C2  Scoped release: whatever the outcome of the write operation, no      *)
(* write connection is open once the request has finished, and disconnect() *)
(* has been called exactly once on a connection that was opened and never   *)
(* otherwise.                                                               *)
ScopedRelease ==
    /\ writer.pc = "idle" => writer.fd # "open"
    /\ writer.pc = "idle" => writer.disconnects = (IF writer.fd = "closed" THEN 1 ELSE 0)
    /\ writer.pc # "idle" => writer.disconnects = 0

(* A request whose operation failed at the transport has returned. *)
ScopedReleaseWitness ==
    /\ writer.pc = "idle"
    /\ writer.op_out = "TransportFailure"
    /\ writer.fd = "closed"
    /\ writer.disconnects = 1

(* C3  Tick isolation: when a tick that ran in Monitor mode has returned,   *)
(* every registered gateway was evaluated in it; a gateway whose connection *)
(* could not be opened is reported 'disconnected'; a gateway that was       *)
(* connected, or whose new handle reports connected, is reported            *)
(* 'connected'; exactly one snapshot was pushed; and with the registry      *)
(* {A: unreachable, B: reachable} that snapshot is                          *)
(* {A: 'disconnected', B: 'connected'}.                                     *)
TickIsolation ==
    (tick.pc = "done" /\ tick.monitor) =>
        /\ (DOMAIN tick.outcome) \cup tick.skipped = DOMAIN gateways
        /\ \A k \in DOMAIN tick.outcome :
             /\ tick.outcome[k] = "fail" =>
                  k \in DOMAIN tick.ovsdb_states /\ tick.ovsdb_states[k] = "disconnected"
             /\ tick.outcome[k] = "ok" =>
                  k \in DOMAIN tick.ovsdb_states /\ tick.ovsdb_states[k] = "connected"
        /\ \A k \in tick.skipped :
             k \in DOMAIN tick.ovsdb_states /\ tick.ovsdb_states[k] = "connected"
        /\ tick.notified = <<tick.ovsdb_states>>
        /\ (DOMAIN gateways = {"A", "B"} /\ net["A"] = "down" /\ net["B"] = "up") =>
             tick.notified = <<[k \in {"A", "B"} |->
                                  IF k = "A" THEN "disconnected" ELSE "connected"]>>

(* A tick over {A: unreachable, B: reachable} in which A's attempt failed   *)
(* and B's connection was opened afterwards.                                *)
TickIsolationWitness ==
    /\ tick.pc = "done"
    /\ tick.monitor
    /\ DOMAIN gateways = {"A", "B"}
    /\ DOMAIN tick.outcome = {"A", "B"}
    /\ tick.outcome["A"] = "fail"
    /\ tick.outcome["B"] = "ok"

(* C4  Whenever the agent type is not Monitor, no registry entry holds a   *)
(* monitoring handle that reports connected, and so no event-reception loop *)
(* of a connected handle is live; this also when the agent left Monitor     *)
(* while a tick was blocked in a connection attempt.                        *)
NoMonitoringOutsideMonitor ==
    (phase = "ready" /\ l2gw_agent_type # MONITOR) =>
        \A k \in DOMAIN gateways :
            ~IsConnected(gateways[k]) /\ ~(gateways[k].connected /\ gateways[k].loop)

(* C5  Invalid identifier safety: a write request whose identifier is empty *)
(* or not a key of the registry returns normally, opens no connection and   *)
(* calls no write operation, and the step that handles it leaves the agent  *)
(* type, the periodic task and the registry handles unchanged.              *)
InvalidRequestDropped ==
    (writer.req \in WriteRequests /\ (writer.id = "" \/ writer.id \notin DOMAIN gateways)) =>
        /\ writer.pc = "idle"
        /\ writer.result = "dropped"
        /\ writer.attempts = 0
        /\ writer.invoked = "none"
        /\ writer.fd = "none"

InvalidRequestFrame ==
    (/\ writer.pc = "idle"
     /\ writer' # writer
     /\ writer'.req \in WriteRequests
     /\ (writer'.id = "" \/ writer'.id \notin DOMAIN gateways)) =>
        UNCHANGED <<l2gw_agent_type, agent_state, looping_task, gateways>>

InvalidIdentifierSafety == [](InvalidRequestDropped) /\ [][InvalidRequestFrame]_vars

(* A request with the empty identifier, which is a key of the registry, was *)
(* dropped while the agent monitors a connected gateway.                    *)
InvalidIdentifierSafetyWitness ==
    /\ writer.req = "update_connection_to_gateway"
    /\ writer.id = ""
    /\ "" \in DOMAIN gateways
    /\ writer.result = "dropped"
    /\ l2gw_agent_type = MONITOR
    /\ \E k \in DOMAIN gateways : IsConnected(gateways[k])

(* C6  After set_monitor_agent took the agent from Monitor to Transact with *)
(* A and B connected and then back to Monitor, the next tick treats neither *)
(* A nor B as already connected: it opens a new connection for both.        *)
RetriedAfterTransact ==
    scenario = "tick" =>
        /\ tick.skipped \cap ScenarioGateways = {}
        /\ tick.pc = "done" => ScenarioGateways \subseteq DOMAIN tick.outcome

(* C7  handle_report_state_failure: in Monitor it sets the agent type to    *)
(* the unset value, stops the periodic task and disconnects every connected *)
(* handle; otherwise it changes neither the agent type, nor the task, nor   *)
(* any handle, and calls no disconnect().                                   *)
HeartbeatFailureStep ==
    handle_report_state_failure =>
        IF l2gw_agent_type = MONITOR
        THEN /\ l2gw_agent_type' = UNSET
             /\ ~looping_task'.running
             /\ \A k \in DOMAIN gateways' : ~IsConnected(gateways'[k])
             /\ last_call'.disconnected = {k \in DOMAIN gateways : IsConnected(gateways[k])}
        ELSE /\ UNCHANGED <<l2gw_agent_type, agent_state, looping_task, gateways>>
             /\ last_call'.disconnected = {}
             /\ ~last_call'.stopped

ForcedUnsetStep ==
    (/\ last_call.op = "handle_report_state_failure"
     /\ l2gw_agent_type = UNSET
     /\ ~(\E hostname \in Hostnames : set_monitor_agent(hostname))) =>
        /\ l2gw_agent_type' = UNSET
        /\ ~looping_task'.running

ForcedUnsetStable == [][ForcedUnsetStep]_vars

(* After the forced transition a tick has gone on to connect a gateway and  *)
(* a write request is in progress.                                          *)
ForcedUnsetStableWitness ==
    /\ last_call.op = "handle_report_state_failure"
    /\ last_call.stopped
    /\ l2gw_agent_type = UNSET
    /\ tick.pc = "done"
    /\ \E k \in DOMAIN gateways : IsConnected(gateways[k])
    /\ writer.pc = "operating"

(* C9  Startup validation: with max_connection_retries >= periodic_interval *)
(* __init__ ends in SystemExit and never creates the periodic task, for     *)
(* every host list, the empty one included.                                 *)
StartupValidation ==
    (phase # "new" /\ conf.max_connection_retries >= conf.periodic_interval) =>
        (phase = "exited" /\ ~looping_task.created)

(* C10  _open_connection with an unregistered identifier fails with         *)
(* InvalidGateway before any connection is attempted.                       *)
OpenConnectionFailsFast ==
    (/\ phase = "ready"
     /\ writer.req = "_open_connection"
     /\ writer.id \notin DOMAIN gateways) =>
        (writer.result = "InvalidGateway" /\ writer.attempts = 0)

(* C11  Snapshot completeness: the snapshot pushed by a tick that ran in    *)
(* Monitor mode over a non-empty registry has exactly the registered        *)
(* identifiers as its keys, each 'connected' or 'disconnected'; a gateway   *)
(* whose new handle does not report connected appears as 'disconnected'.    *)
SnapshotComplete ==
    (tick.pc = "done" /\ tick.monitor) =>
        /\ Len(tick.notified) = 1
        /\ DOMAIN tick.notified[1] = DOMAIN gateways
        /\ \A k \in DOMAIN tick.notified[1] :
             tick.notified[1][k] \in {"connected", "disconnected"}
        /\ \A k \in DOMAIN tick.outcome :
             tick.outcome[k] = "flaky" =>
                 k \in DOMAIN tick.notified[1] /\ tick.notified[1][k] = "disconnected"

(* C12  A tick that finds the registry empty or the agent type not Monitor  *)
(* opens no connection, spawns no event loop, changes no registry handle    *)
(* and pushes exactly one snapshot, the empty map.                          *)
IdleTickPushesEmpty ==
    (tick.pc # "idle" /\ ~tick.monitor) =>
        /\ tick.pc = "done"
        /\ tick.outcome = EmptyMap
        /\ tick.skipped = {}
        /\ tick.notified = <<EmptyMap>>

IdleTickStep ==
    (/\ TickStart \/ connect_to_ovsdb_server_call
     /\ DOMAIN gateways = {} \/ l2gw_agent_type # MONITOR) =>
        /\ UNCHANGED <<gateways, orphans, phase>>
        /\ tick'.pc = "done"
        /\ ~tick'.monitor
        /\ tick'.notified = <<EmptyMap>>

IdleTickNoEffect == [](IdleTickPushesEmpty) /\ [][IdleTickStep]_vars

(* A tick has run and returned in Transact mode over a registry that holds  *)
(* a handle.                                                                *)
IdleTickNoEffectWitness ==
    /\ l2gw_agent_type = TRANSACT
    /\ tick.pc = "done"
    /\ ~tick.monitor
    /\ tick.notified = <<EmptyMap>>
    /\ \E k \in DOMAIN gateways : gateways[k].fd


(* C13  Within one tick the connection attempt for one gateway does not     *)
(* delay the evaluation of the next: while the attempt for the gateway at   *)
(* the head of the remaining keys is pending, a step that evaluates a later *)
(* gateway of the tick, the attempt still pending, is possible.             *)
EvaluationNotDelayed ==
    (phase = "ready" /\ tick.pc = "opening" /\ Len(tick.keys) > 1) =>
        ENABLED (/\ NextMonitor
                 /\ tick'.pc = "opening"
                 /\ Head(tick'.keys) = Head(tick.keys)
                 /\ \E i \in 2..Len(tick.keys) :
                      \/ tick.keys[i] \in DOMAIN tick'.ovsdb_states
                      \/ tick.keys[i] \in DOMAIN tick'.outcome
                      \/ tick.keys[i] \in tick'.skipped)


(* C14  In a Monitor-mode tick a gateway whose stored handle reports        *)
(* connected gets no new connection and no new event loop, keeps its stored *)
(* handle and is reported 'connected'; a connection is attempted only for a *)
(* gateway whose stored handle is absent or reports not connected.          *)
ConnectedSkippedStep ==
    tick' # tick =>
        /\ \A k \in tick'.skipped \ (IF tick.pc = "opening" THEN tick.skipped ELSE {}) :
             /\ k \in DOMAIN gateways /\ IsConnected(gateways[k])
             /\ gateways'[k] = gateways[k]
             /\ k \notin DOMAIN tick'.outcome
             /\ k \in DOMAIN tick'.ovsdb_states /\ tick'.ovsdb_states[k] = "connected"
        /\ tick'.pc = "opening" => ~IsConnected(gateways'[Head(tick'.keys)])
        /\ \A k \in DOMAIN tick'.outcome \ (IF tick.pc = "opening" THEN DOMAIN tick.outcome ELSE {}) :
             /\ TickOpenDone
             /\ ~IsConnected(gateways[k])

ConnectedSkippedState ==
    /\ tick.skipped \cap DOMAIN tick.outcome = {}
    /\ \A k \in tick.skipped :
         k \in DOMAIN tick.ovsdb_states /\ tick.ovsdb_states[k] = "connected"
    /\ tick.pc = "done" =>
         \A k \in tick.skipped : tick.notified[Len(tick.notified)][k] = "connected"

ConnectedSkipped == [](ConnectedSkippedState) /\ [][ConnectedSkippedStep]_vars

(* A tick has returned that found one gateway connected and opened a        *)
(* connection for another.                                                  *)
ConnectedSkippedWitness ==
    /\ tick.pc = "done"
    /\ tick.monitor
    /\ tick.skipped # {}
    /\ \E k \in DOMAIN tick.outcome : tick.outcome[k] = "ok"


(* C15  Self-correction: while the agent type stays Monitor and the         *)
(* periodic task keeps ticking, every reachable gateway whose stored handle *)
(* is absent or not connected eventually has a connected handle stored in   *)
(* the registry, and a tick that opened it pushes a snapshot reporting it   *)
(* 'connected'.                                                             *)
NeedsConnection(k) ==
    /\ phase = "ready"
    /\ l2gw_agent_type = MONITOR
    /\ k \in DOMAIN gateways
    /\ net[k] = "up"
    /\ ~IsConnected(gateways[k])

HasConnectedHandle(k) == k \in DOMAIN gateways /\ IsConnected(gateways[k])

MonitoringEnded == l2gw_agent_type # MONITOR \/ phase = "exited"

ReportedConnected(k) ==
    /\ tick.pc = "done"
    /\ tick.monitor
    /\ k \in DOMAIN tick.outcome /\ tick.outcome[k] = "ok"
    /\ tick.notified[Len(tick.notified)][k] = "connected"

SelfCorrection ==
    \A k \in {"A", "B"} :
        /\ NeedsConnection(k) ~> (HasConnectedHandle(k) \/ MonitoringEnded)
        /\ NeedsConnection(k) ~> (ReportedConnected(k) \/ MonitoringEnded)

(* A gateway whose connection was lost has been connected again by a later  *)
(* tick, which reported it, while the other gateway stays unreachable.      *)
SelfCorrectionWitness ==
    /\ l2gw_agent_type = MONITOR
    /\ \E k \in DOMAIN gateways :
         /\ net[k] = "up"
         /\ IsConnected(gateways[k])
         /\ ReportedConnected(k)
         /\ \E j \in DOMAIN tick.outcome : tick.outcome[j] = "fail"


(* C16  A write request with a valid identifier behaves the same in every   *)
(* agent mode: it is accepted, opens one connection of its own, and leaves  *)
(* the agent type, the periodic task's running flag and every monitoring    *)
(* handle of the registry as they were.                                     *)
ValidWriteAccepted ==
    \A id \in DOMAIN gateways :
        (phase = "ready" /\ writer.pc = "idle" /\ id # "") =>
            ENABLED (/\ delete_network(id)
                     /\ writer'.pc = "opening"
                     /\ writer'.attempts = 1
                     /\ writer'.fd = "none")

ValidWriteOwnConnection ==
    (writer.pc = "operating") =>
        /\ is_valid_request(gateways, writer.id) \/ writer.req = "_open_connection"
        /\ writer.fd = "open"
        /\ writer.attempts = 1
        /\ writer.disconnects = 0

ValidWriteFrame ==
    (writer' # writer /\ is_valid_request(gateways, writer'.id)) =>
        UNCHANGED <<l2gw_agent_type, agent_state, looping_task, gateways, orphans,
                    tick, phase>>

WriteModeIndependent ==
    /\ [](ValidWriteAccepted /\ ValidWriteOwnConnection)
    /\ [][ValidWriteFrame]_vars

(* A write request has run to its end, its connection released, in Monitor  *)
(* mode while the monitoring handle of the same gateway reports connected.  *)
WriteModeIndependentWitness ==
    /\ l2gw_agent_type = MONITOR
    /\ writer.pc = "idle"
    /\ writer.req \in WriteRequests
    /\ writer.disconnects = 1
    /\ is_valid_request(gateways, writer.id)
    /\ IsConnected(gateways[writer.id])


(* C17  When the write operation fails and the release of the write         *)
(* connection fails too, the caller of the write request sees the failure   *)
(* of the operation and never the failure of the release.                   *)
ReleaseFailureSwallowed ==
    (/\ writer.pc = "idle"
     /\ writer.op_out \in {"OperationFailure", "TransportFailure"}
     /\ writer.rel_out = "fail") =>
        writer.result = writer.op_out


(* C18  Idempotent transitions: set_monitor_agent called again with the     *)
(* host name of the call before it leaves the state of the first call - in  *)
(* Monitor mode it does not start the periodic task again, in Transact mode *)
(* it calls neither stop on the task nor disconnect() on a handle; and      *)
(* _disconnect_all_ovsdb_servers over handles that are absent or not        *)
(* connected calls no disconnect and changes nothing.                       *)
AfterSetMode(hostname) ==
    /\ phase = "ready"
    /\ l2gw_agent_type = base_set_monitor_agent(hostname)
    /\ agent_state = l2gw_agent_type
    /\ looping_task.running <=> (l2gw_agent_type = MONITOR)
    /\ l2gw_agent_type = TRANSACT =>
         \A k \in DOMAIN gateways : ~IsConnected(gateways[k])

RepeatedSetModeStep ==
    \A hostname \in Hostnames :
        (AfterSetMode(hostname) /\ set_monitor_agent(hostname)) =>
            /\ UNCHANGED <<l2gw_agent_type, agent_state, looping_task, gateways,
                           tick, orphans, phase>>
            /\ ~last_call'.started
            /\ ~last_call'.stopped
            /\ last_call'.disconnected = {}

DisconnectAllIdle ==
    (\A k \in DOMAIN gateways : ~IsConnected(gateways[k])) =>
        /\ disconnect_all_ovsdb_servers(gateways) = gateways
        /\ disconnect_calls(gateways) = {}

IdempotentTransitions == [](DisconnectAllIdle) /\ [][RepeatedSetModeStep]_vars

(* set_monitor_agent has run in Transact mode for the second time in a row  *)
(* over a registry that holds a handle, not connected, and neither stopped  *)
(* the task nor disconnected.                                               *)
IdempotentTransitionsWitness ==
    /\ l2gw_agent_type = TRANSACT
    /\ last_call.op = "set_monitor_agent"
    /\ last_call.again
    /\ ~last_call.stopped
    /\ last_call.disconnected = {}
    /\ \E k \in DOMAIN gateways : gateways[k].fd /\ ~gateways[k].connected


(* C19  Fatal spawn failure: when the event-reception loop of a connection  *)
(* just opened cannot be spawned the tick ends with the fatal exit - the    *)
(* gateways after it are not evaluated, no snapshot is pushed, and the      *)
(* gateway is not given the status 'disconnected'.                          *)
SpawnFailureAborts ==
    (tick.pc = "aborted") =>
        /\ phase = "exited"
        /\ tick.notified = <<>>
        /\ tick.keys # <<>>
        /\ tick.outcome[Head(tick.keys)] = "spawn_failed"
        /\ Head(tick.keys) \notin DOMAIN tick.ovsdb_states
        /\ \A i \in 2..Len(tick.keys) :
             /\ tick.keys[i] \notin DOMAIN tick.ovsdb_states
             /\ tick.keys[i] \notin DOMAIN tick.outcome
             /\ tick.keys[i] \notin tick.skipped

SpawnFailureFinal == (tick.pc = "aborted") => UNCHANGED vars

SpawnFailureFatal == [](SpawnFailureAborts) /\ [][SpawnFailureFinal]_vars

(* The spawn has failed for the first of two gateways the tick had to       *)
(* evaluate.                                                                *)
SpawnFailureFatalWitness ==
    /\ tick.pc = "aborted"
    /\ Len(tick.keys) > 1
    /\ gateways[Head(tick.keys)].fd


(* C20  No orphaned monitoring connection: every monitoring connection      *)
(* whose event-reception loop was spawned and that was not disconnected is  *)
(* the handle stored in its gateway's registry entry; a tick never          *)
(* overwrites a stored handle whose event loop is still live.               *)
NoOrphanedConnections == orphans = 0

====
